---- MODULE Spec2Model ----
(***************************************************************************)
(* Hand-over-hand locking over a singly linked list of mutex-protected     *)
(* nodes: `find` of concurrent_set/src/main.rs (identical in               *)
(* atomic_list/src/main.rs) and the callers of the two `main` functions.   *)
(*                                                                         *)
(* Nodes are numbered 1..Len(val) in construction order; node 1 is the     *)
(* head (`fst`), 0 stands for None / "no node".  Each node is an           *)
(* Arc<Mutex<Node>> whose only owning reference is its predecessor's       *)
(* `next` (or `fst` for the head), so dropping that Option frees the node  *)
(* and, recursively, everything it still links to.                         *)
(*                                                                         *)
(* Both programs call find from one thread; the properties of find are     *)
(* about several threads sharing `&fst`, so every thread here runs         *)
(* find followed by the caller's statements.  The println! of f (lines     *)
(* 104 and 106) read a node whose lock is held and change nothing; they    *)
(* are not steps.  A panicking thread unwinds without releasing: its       *)
(* guards are ManuallyDrop.                                                *)
(***************************************************************************)
EXTENDS Integers, Sequences, FiniteSets, TLC

\* ---- bounds --------------------------------------------------------------
MaxLen == 4
MaxKey == 5
NThreads == 2

\* ---- program constants ---------------------------------------------------
\* the literal searched by find: `if curr.val == 4`
Target == 4

Threads == 1..NThreads
Keys == 1..MaxKey
None == 0

VARIABLES val, next, owner, freed, caller, pc, prev, curr, want, mutex, sval,
          acq, rel

vars == <<val, next, owner, freed, caller, pc, prev, curr, want, mutex, sval,
          acq, rel>>

Nodes == 1..Len(val)
head == 1

\* the list main builds: fst -> snd -> third -> fourth
MainList == <<1, 2, 3, 4>>

\* every list with strictly increasing keys, built the way main builds its own
SortedLists ==
  { s \in UNION { [1..n -> Keys] : n \in 1..MaxLen } :
      \A i \in 1..(Len(s) - 1) : s[i] < s[i + 1] }

\* the three callers of find: main of concurrent_set, main of atomic_list, and a
\* caller that only meets find's obligation of releasing the two guards
Callers == {"concurrent_set", "atomic_list", "release"}

\* the nodes owned, directly or transitively, by the Option `n`
RECURSIVE Chain(_)
Chain(n) == IF n = None THEN {} ELSE {n} \cup Chain(next[n])

\* the guards (locks) thread t holds
HeldBy(t) == { n \in Nodes : owner[n] = t }

\* the node whose lock t is blocked on, None when t is not inside lock()
WaitsFor(t) ==
  IF pc[t] = "start" THEN head
  ELSE IF pc[t] \in {"first_lock", "advance_lock"} THEN want[t]
  ELSE None

\* history of the mutexes: acq[n] lists the threads whose lock() of node n was
\* granted, in the order of the grants; rel[t][n] counts the guards of node n
\* that thread t has dropped
Granted(t, n) == [acq EXCEPT ![n] = Append(@, t)]
Dropped(t, n) == [rel EXCEPT ![t][n] = @ + 1]

Init ==
  /\ val \in SortedLists
  /\ next = [n \in 1..Len(val) |-> IF n < Len(val) THEN n + 1 ELSE None]
  /\ owner = [n \in 1..Len(val) |-> 0]
  /\ freed = {}
  /\ caller \in Callers
  /\ pc = [t \in Threads |-> "start"]
  /\ prev = [t \in Threads |-> None]
  /\ curr = [t \in Threads |-> None]
  /\ want = [t \in Threads |-> None]
  /\ mutex = [t \in Threads |-> None]
  /\ sval = [t \in Threads |-> 0]
  /\ acq = [n \in 1..Len(val) |-> <<>>]
  /\ rel = [t \in Threads |-> [n \in 1..Len(val) |-> 0]]

\* ---- find ----------------------------------------------------------------

\* a plausible slip: one lock for the whole list, granted when no node is locked
LockHead_Global(t) ==
  /\ pc[t] = "start"
  /\ \A n \in Nodes : owner[n] = 0
  /\ owner' = [owner EXCEPT ![head] = t]
  /\ acq' = Granted(t, head)
  /\ prev' = [prev EXCEPT ![t] = head]
  /\ pc' = [pc EXCEPT ![t] = "first"]
  /\ UNCHANGED <<val, next, freed, caller, curr, want, mutex, sval, rel>>

\* let prev = ManuallyDrop::new(prev.lock().unwrap());
LockHead(t) ==
  /\ pc[t] = "start"
  /\ owner[head] = 0
  /\ owner' = [owner EXCEPT ![head] = t]
  /\ acq' = Granted(t, head)
  /\ prev' = [prev EXCEPT ![t] = head]
  /\ pc' = [pc EXCEPT ![t] = "first"]
  /\ UNCHANGED <<val, next, freed, caller, curr, want, mutex, sval, rel>>

\* a plausible slip: prev is an ordinary guard, dropped when unwrap() panics
NextOfPrev_UnlockOnPanic(t, waiting) ==
  /\ IF next[prev[t]] = None
       THEN /\ pc' = [pc EXCEPT ![t] = "panicked"]
            /\ want' = want
            /\ owner' = [owner EXCEPT ![prev[t]] = 0]
            /\ rel' = Dropped(t, prev[t])
       ELSE /\ pc' = [pc EXCEPT ![t] = waiting]
            /\ want' = [want EXCEPT ![t] = next[prev[t]]]
            /\ owner' = owner
            /\ rel' = rel
  /\ UNCHANGED <<val, next, freed, caller, prev, curr, mutex, sval, acq>>

\* a plausible slip: next.take() where next.as_ref() is meant
NextOfPrev_Take(t, waiting) ==
  /\ IF next[prev[t]] = None
       THEN /\ pc' = [pc EXCEPT ![t] = "panicked"]
            /\ want' = want
       ELSE /\ pc' = [pc EXCEPT ![t] = waiting]
            /\ want' = [want EXCEPT ![t] = next[prev[t]]]
  /\ next' = [next EXCEPT ![prev[t]] = None]
  /\ UNCHANGED <<val, owner, freed, caller, prev, curr, mutex, sval, acq, rel>>

\* (&*prev_cell.get()).next.as_ref().unwrap() : read prev.next under prev's
\* lock; unwrap() of None panics, and the ManuallyDrop guard is never dropped
NextOfPrev(t, waiting) ==
  /\ IF next[prev[t]] = None
       THEN /\ pc' = [pc EXCEPT ![t] = "panicked"]
            /\ want' = want
       ELSE /\ pc' = [pc EXCEPT ![t] = waiting]
            /\ want' = [want EXCEPT ![t] = next[prev[t]]]
  /\ UNCHANGED <<val, next, owner, freed, caller, prev, curr, mutex, sval, acq, rel>>

\* .lock().unwrap() on the node read from prev.next
LockWanted(t, after) ==
  /\ owner[want[t]] = 0
  /\ owner' = [owner EXCEPT ![want[t]] = t]
  /\ acq' = Granted(t, want[t])
  /\ curr' = [curr EXCEPT ![t] = want[t]]
  /\ pc' = [pc EXCEPT ![t] = after]
  /\ UNCHANGED <<val, next, freed, caller, prev, want, mutex, sval, rel>>

\* let mut curr = unsafe { ... prev.next ... } : the reference
FirstNext(t) ==
  /\ pc[t] = "first"
  /\ NextOfPrev(t, "first_lock")

\* a plausible slip: a `while curr.val != 4` loop, which tests before it advances
FirstLock_TestFirst(t) ==
  /\ pc[t] = "first_lock"
  /\ LockWanted(t, "compare")

\* let mut curr = unsafe { ... .lock().unwrap() } ; prev = prev_cell.into_inner()
FirstLock(t) ==
  /\ pc[t] = "first_lock"
  /\ LockWanted(t, "loop")

\* a plausible slip: the guard that is dropped is curr's, not prev's
ReleasePrev_WrongGuard(t) ==
  /\ pc[t] = "loop"
  /\ owner' = [owner EXCEPT ![curr[t]] = 0]
  /\ rel' = Dropped(t, curr[t])
  /\ prev' = [prev EXCEPT ![t] = curr[t]]
  /\ curr' = [curr EXCEPT ![t] = None]
  /\ pc' = [pc EXCEPT ![t] = "advance"]
  /\ UNCHANGED <<val, next, freed, caller, want, mutex, sval, acq>>

\* a plausible slip: no coupling, both guards are dropped before the next lock
ReleasePrev_Uncoupled(t) ==
  /\ pc[t] = "loop"
  /\ owner' = [owner EXCEPT ![prev[t]] = 0, ![curr[t]] = 0]
  /\ rel' = [rel EXCEPT ![t][prev[t]] = @ + 1, ![t][curr[t]] = @ + 1]
  /\ prev' = [prev EXCEPT ![t] = curr[t]]
  /\ curr' = [curr EXCEPT ![t] = None]
  /\ pc' = [pc EXCEPT ![t] = "advance"]
  /\ UNCHANGED <<val, next, freed, caller, want, mutex, sval, acq>>

\* let _ = ManuallyDrop::into_inner(prev); prev = curr;
ReleasePrev(t) ==
  /\ pc[t] = "loop"
  /\ owner' = [owner EXCEPT ![prev[t]] = 0]
  /\ rel' = Dropped(t, prev[t])
  /\ prev' = [prev EXCEPT ![t] = curr[t]]
  /\ curr' = [curr EXCEPT ![t] = None]
  /\ pc' = [pc EXCEPT ![t] = "advance"]
  /\ UNCHANGED <<val, next, freed, caller, want, mutex, sval, acq>>

\* curr = unsafe { ... prev.next ... } inside the loop: the reference
AdvanceNext(t) ==
  /\ pc[t] = "advance"
  /\ NextOfPrev(t, "advance_lock")

\* curr = unsafe { ... .lock().unwrap() } ; prev = prev_cell.into_inner() ; transmute
AdvanceLock(t) ==
  /\ pc[t] = "advance_lock"
  /\ LockWanted(t, "compare")

\* a plausible slip: the comparison is made against the wrong literal
Found_OffByOne(v) == v = Target - 1

\* curr.val == 4
Found(v) == v = Target

\* a plausible slip: prev is an ordinary guard and is dropped when find returns
Compare_DropPrev(t) ==
  /\ pc[t] = "compare"
  /\ IF Found(val[curr[t]])
       THEN /\ pc' = [pc EXCEPT ![t] = "returned"]
            /\ owner' = [owner EXCEPT ![prev[t]] = 0]
            /\ rel' = Dropped(t, prev[t])
       ELSE /\ pc' = [pc EXCEPT ![t] = "loop"]
            /\ owner' = owner
            /\ rel' = rel
  /\ UNCHANGED <<val, next, freed, caller, prev, curr, want, mutex, sval, acq>>

\* if curr.val == 4 { break (prev, curr) } ; otherwise the next iteration
Compare(t) ==
  /\ pc[t] = "compare"
  /\ IF Found(val[curr[t]])
       THEN pc' = [pc EXCEPT ![t] = "returned"]
       ELSE pc' = [pc EXCEPT ![t] = "loop"]
  /\ UNCHANGED <<val, next, owner, freed, caller, prev, curr, want, mutex, sval, acq, rel>>

\* ---- the callers (main) --------------------------------------------------

\* a plausible slip: the taken Option is dropped on the spot (as `f.next = None`)
TakeNext_DropAtOnce(t) ==
  /\ caller = "concurrent_set"
  /\ pc[t] = "returned"
  /\ mutex' = [mutex EXCEPT ![t] = next[prev[t]]]
  /\ next' = [next EXCEPT ![prev[t]] = None]
  /\ freed' = freed \cup Chain(next[prev[t]])
  /\ pc' = [pc EXCEPT ![t] = "print"]
  /\ UNCHANGED <<val, owner, caller, prev, curr, want, sval, acq, rel>>

\* concurrent_set: let mutex = f.next.take();
TakeNext(t) ==
  /\ caller = "concurrent_set"
  /\ pc[t] = "returned"
  /\ mutex' = [mutex EXCEPT ![t] = next[prev[t]]]
  /\ next' = [next EXCEPT ![prev[t]] = None]
  /\ pc' = [pc EXCEPT ![t] = "print"]
  /\ UNCHANGED <<val, owner, freed, caller, prev, curr, want, sval, acq, rel>>

\* atomic_list: f.next = None;  the old Option<Arc<Mutex<Node>>> is dropped
\* here, which frees the node s guards and all it links to
AssignNone(t) ==
  /\ caller = "atomic_list"
  /\ pc[t] = "returned"
  /\ next' = [next EXCEPT ![prev[t]] = None]
  /\ freed' = freed \cup Chain(next[prev[t]])
  /\ pc' = [pc EXCEPT ![t] = "print"]
  /\ UNCHANGED <<val, owner, caller, prev, curr, want, mutex, sval, acq, rel>>

\* println!("s val {}", s.val);  a read of freed storage yields any value
PrintS(t) ==
  /\ pc[t] = "print"
  /\ \E v \in (IF curr[t] \in freed THEN 0..MaxKey ELSE {val[curr[t]]}) :
        sval' = [sval EXCEPT ![t] = v]
  /\ pc' = [pc EXCEPT ![t] = "release_f"]
  /\ UNCHANGED <<val, next, owner, freed, caller, prev, curr, want, mutex, acq, rel>>

\* let _ = ManuallyDrop::into_inner(f);  the "release" caller does nothing
\* else with the pair ("The caller must ensure that ManuallyDrop::into_inner
\* is called on the two guards so that they are released")
ReleaseF(t) ==
  /\ \/ pc[t] = "release_f"
     \/ caller = "release" /\ pc[t] = "returned"
  /\ owner' = [owner EXCEPT ![prev[t]] = 0]
  /\ rel' = Dropped(t, prev[t])
  /\ pc' = [pc EXCEPT ![t] = "release_s"]
  /\ UNCHANGED <<val, next, freed, caller, prev, curr, want, mutex, sval, acq>>

\* a plausible slip: the second into_inner is given f again, s is never dropped
ReleaseS_WrongGuard(t) ==
  /\ pc[t] = "release_s"
  /\ owner' = [owner EXCEPT ![prev[t]] = 0]
  /\ rel' = Dropped(t, prev[t])
  /\ pc' = [pc EXCEPT ![t] = IF caller = "concurrent_set" THEN "drop" ELSE "done"]
  /\ UNCHANGED <<val, next, freed, caller, prev, curr, want, mutex, sval, acq>>

\* let _ = ManuallyDrop::into_inner(s);  unlocking a freed mutex writes to
\* freed storage: the lock word ends up either way
ReleaseS(t) ==
  /\ pc[t] = "release_s"
  /\ \E o \in (IF curr[t] \in freed THEN {0, t} ELSE {0}) :
        owner' = [owner EXCEPT ![curr[t]] = o]
  /\ rel' = Dropped(t, curr[t])
  /\ pc' = [pc EXCEPT ![t] = IF caller = "concurrent_set" THEN "drop" ELSE "done"]
  /\ UNCHANGED <<val, next, freed, caller, prev, curr, want, mutex, sval, acq>>

\* concurrent_set: drop(mutex);
DropMutex(t) ==
  /\ pc[t] = "drop"
  /\ freed' = freed \cup Chain(mutex[t])
  /\ mutex' = [mutex EXCEPT ![t] = None]
  /\ pc' = [pc EXCEPT ![t] = "done"]
  /\ UNCHANGED <<val, next, owner, caller, prev, curr, want, sval, acq, rel>>

Step(t) ==
  \/ LockHead(t)
  \/ FirstNext(t)
  \/ FirstLock(t)
  \/ ReleasePrev(t)
  \/ AdvanceNext(t)
  \/ AdvanceLock(t)
  \/ Compare(t)
  \/ TakeNext(t)
  \/ AssignNone(t)
  \/ PrintS(t)
  \/ ReleaseF(t)
  \/ ReleaseS(t)
  \/ DropMutex(t)

Next == \E t \in Threads : Step(t)

Spec == Init /\ [][Next]_vars

\* every thread that can take a step is eventually scheduled
FairSpec == Spec /\ \A t \in Threads : WF_vars(Step(t))

TypeOK ==
  /\ val \in SortedLists
  /\ next \in [Nodes -> Nodes \cup {None}]
  /\ owner \in [Nodes -> Threads \cup {0}]
  /\ freed \subseteq Nodes
  /\ caller \in Callers
  /\ prev \in [Threads -> Nodes \cup {None}]
  /\ curr \in [Threads -> Nodes \cup {None}]
  /\ want \in [Threads -> Nodes \cup {None}]
  /\ mutex \in [Threads -> Nodes \cup {None}]
  /\ sval \in [Threads -> 0..MaxKey]
  /\ acq \in [Nodes -> Seq(Threads)]
  /\ rel \in [Threads -> [Nodes -> Nat]]

\* ---- vocabulary of the properties --------------------------------------

\* t is inside find, after its lock of head was granted and before it returns
InFind(t) ==
  pc[t] \in {"first", "first_lock", "loop", "advance", "advance_lock", "compare"}

\* find has returned to t's caller, which still runs or has finished
AfterFind(t) ==
  pc[t] \in {"returned", "print", "release_f", "release_s", "drop", "done"}

\* the caller of find has written pred.next
AfterUnlink(t) == pc[t] \in {"print", "release_f", "release_s", "drop", "done"}

\* no caller has written a next field yet
Untouched == \A n \in Nodes : next[n] = IF n < Len(val) THEN n + 1 ELSE None

Range(s) == { s[i] : i \in 1..Len(s) }

\* ---- properties ---------------------------------------------------------

\* C1: on the list 1, 2, 3, 4 that main builds, find returns (pred, curr)
\* with pred.key = 3 and curr.key = 4.
C1_FindOnMainList ==
  \A t \in Threads :
    (val = MainList /\ pc[t] = "returned")
      => (val[prev[t]] = 3 /\ val[curr[t]] = 4)

C1_Witness ==
  \E t \in Threads : val = MainList /\ pc[t] = "returned" /\ curr[t] = 4

\* C2: for every list with strictly increasing keys, find ends by returning
\* a pair (pred, curr) with pred.key < k <= curr.key, wherever k is stored
\* and also when k is absent.
C2_FindBrackets ==
  \A t \in Threads :
    (Untouched /\ pc[t] \in {"returned", "panicked"})
      => /\ pc[t] = "returned"
         /\ val[prev[t]] < Target
         /\ Target <= val[curr[t]]

\* C3: from the grant of head's lock until find returns, the thread holds one
\* or two node locks, and two held locks are on a node and its successor.
C3_OneOrTwoAdjacent ==
  \A t \in Threads :
    (InFind(t) \/ pc[t] = "returned")
      => /\ Cardinality(HeldBy(t)) \in {1, 2}
         /\ Cardinality(HeldBy(t)) = 2
              => \E n \in HeldBy(t) : HeldBy(t) = {n, next[n]}

C3_Witness ==
  \E t \in Threads :
    /\ pc[t] = "compare"
    /\ HeldBy(t) = {3, 4}

\* C4: when find returns (pred, curr) the caller holds both locks and
\* pred.next is curr.
C4_ReturnsBothLocked ==
  \A t \in Threads :
    pc[t] = "returned"
      => /\ owner[prev[t]] = t
         /\ owner[curr[t]] = t
         /\ prev[t] # curr[t]
         /\ next[prev[t]] = curr[t]

C4_Witness ==
  \E t \in Threads : pc[t] = "returned" /\ HeldBy(t) = {prev[t], curr[t]}

\* no set of threads each blocked on a lock that another of them holds
NoWaitCycle ==
  \A S \in (SUBSET Threads) \ {{}} :
    ~ \A t \in S : WaitsFor(t) # None /\ owner[WaitsFor(t)] \in S

\* C5: with callers that only release the two returned locks, on a list that
\* contains the target, no wait-for cycle is reachable and, under fair
\* scheduling, every find eventually returns.
C5_NoDeadlockAllReturn ==
  /\ []((caller = "release" /\ Target \in Range(val)) => NoWaitCycle)
  /\ (caller = "release" /\ Target \in Range(val))
       ~> (\A t \in Threads : AfterFind(t))

\* C6: on every finite list find ends by returning a pair whose curr is a
\* node of the list; it does not abort or run past the last node.
C6_FindTerminatesInList ==
  \A t \in Threads :
    Untouched
      => /\ pc[t] # "panicked"
         /\ pc[t] = "returned" => curr[t] \in Nodes

\* C7: in concurrent_set's main the unlinked node's mutex is dropped only
\* after both guards are released: no held guard refers to a freed mutex.
C7_DropAfterGuards ==
  caller = "concurrent_set"
    => \A n \in freed : owner[n] = 0

C7_Witness ==
  /\ caller = "concurrent_set"
  /\ val = MainList
  /\ \E t \in Threads : pc[t] = "done" /\ curr[t] \in freed

\* C8: in atomic_list's main node 4 is not reclaimed while its guard is held:
\* no read of curr.val and no release of curr's guard follows the drop of the
\* last owning reference.
C8_NoUseAfterFree ==
  caller = "atomic_list"
    => \A t \in Threads :
         pc[t] \in {"print", "release_f", "release_s"} => curr[t] \notin freed

\* C9: once a thread holding pred's and curr's locks has redirected pred.next
\* away from curr, no other thread acquires or waits for curr's lock.
C9_UnlinkedNeverLocked ==
  \A n \in Nodes \ Chain(head) :
    \A t \in Threads :
      (owner[n] = t \/ WaitsFor(t) = n) => (AfterUnlink(t) /\ curr[t] = n)

C9_Witness ==
  \E t, u \in Threads :
    /\ t # u
    /\ AfterUnlink(t)
    /\ curr[t] \notin Chain(head)
    /\ owner[prev[t]] = t
    /\ WaitsFor(u) = prev[t]

\* t has held two locks in this call of find, and find has not returned
PastFirstPair(t) == pc[t] \in {"loop", "advance", "advance_lock", "compare"}

\* C11 as stated: once a traversal has held head and head.next it holds
\* exactly two adjacent locks at every later instant until find returns.
C11_AlwaysTwoAfterFirstPair ==
  \A t \in Threads :
    (PastFirstPair(t) \/ pc[t] = "returned")
      => \E n \in Nodes : HeldBy(t) = {n, next[n]} /\ next[n] # None

\* C11 as amended: after its first pair a traversal holds exactly the two
\* adjacent locks of prev and curr, except between the release of prev and the
\* grant of the next lock, where it holds exactly one lock, that of the node
\* that was curr.
C11_TwoExceptWhileAdvancing ==
  \A t \in Threads :
    /\ pc[t] \in {"loop", "compare", "returned"}
         => /\ HeldBy(t) = {prev[t], curr[t]}
            /\ next[prev[t]] = curr[t]
            /\ prev[t] # curr[t]
    /\ pc[t] \in {"advance", "advance_lock"}
         => HeldBy(t) = {prev[t]}

C11_Witness ==
  \E t \in Threads :
    /\ pc[t] = "advance_lock"
    /\ HeldBy(t) = {3}
    /\ want[t] = 4

\* C12: a lock is requested on head by a thread that holds no lock, or on the
\* immediate successor of the one node whose lock the thread holds; never on
\* a node that precedes, in list order, a node whose lock it holds.
C12_LocksInListOrder ==
  \A t \in Threads :
    /\ pc[t] = "start" => HeldBy(t) = {}
    /\ pc[t] \in {"first_lock", "advance_lock"}
         => /\ \E n \in Nodes : HeldBy(t) = {n} /\ next[n] = want[t]
            /\ \A h \in HeldBy(t) : h < want[t]
    \* every granted lock but head's went to a thread that held, or had held
    \* and since dropped, the lock of the node before it
    /\ \A n \in Nodes \ {head} : \A i \in 1..Len(acq[n]) :
         acq[n][i] = t => (owner[n - 1] = t \/ rel[t][n - 1] >= 1)

C12_Witness ==
  \E t \in Threads :
    /\ pc[t] = "advance_lock"
    /\ HeldBy(t) = {2}
    /\ want[t] = 3

\* the threads whose lock of node n was granted
Visitors(n) == { acq[n][i] : i \in 1..Len(acq[n]) }

\* the rank of thread t among the grants of node n's lock
GrantIndex(t, n) == CHOOSE i \in 1..Len(acq[n]) : acq[n][i] = t

\* C13: traversals do not overtake: when A's lock of a node is granted before
\* B's, A's lock of every later node that both visit is granted before B's.
C13_NoOvertaking ==
  \A a, b \in Threads : \A m, n \in Nodes :
    (/\ a # b
     /\ m < n
     /\ {a, b} \subseteq Visitors(m)
     /\ {a, b} \subseteq Visitors(n)
     /\ GrantIndex(a, m) < GrantIndex(b, m))
      => GrantIndex(a, n) < GrantIndex(b, n)

C13_Witness ==
  \E a, b \in Threads :
    /\ a # b
    /\ Len(val) >= 3
    /\ acq[1] = <<a, b>>
    /\ acq[3] = <<a, b>>
    /\ InFind(b)

\* C14: a next field is written only by a thread that holds the node's lock;
\* the write that clears pred.next in either main is made under pred's lock,
\* which is released only afterwards.
C14_NextWrittenUnderLock ==
  [][\A n \in Nodes :
       next'[n] # next[n]
         => \E t \in Threads :
              /\ prev[t] = n
              /\ pc[t] = "returned" /\ pc'[t] = "print"
              /\ owner[n] = t /\ owner'[n] = t
              /\ rel[t][n] = 0 /\ rel'[t][n] = 0]_vars

C14_Witness ==
  \E t \in Threads :
    /\ caller \in {"concurrent_set", "atomic_list"}
    /\ pc[t] = "print"
    /\ next[prev[t]] = None
    /\ owner[prev[t]] = t

\* how many times node n's lock was granted to thread t
Grants(t, n) == Cardinality({ i \in 1..Len(acq[n]) : acq[n][i] = t })

\* C15: the two locks find returns stay held until main releases them, and
\* main releases both: after its release steps the thread holds no node lock
\* and every lock it was granted has been released exactly once.
C15_CallerReleasesBoth ==
  caller = "concurrent_set"
    => \A t \in Threads :
         /\ pc[t] \in {"returned", "print", "release_f"}
              => owner[prev[t]] = t /\ owner[curr[t]] = t
         /\ pc[t] = "release_s"
              => owner[prev[t]] # t /\ owner[curr[t]] = t
         /\ pc[t] \in {"drop", "done"}
              => /\ HeldBy(t) = {}
                 /\ \A n \in Nodes : rel[t][n] = Grants(t, n) /\ Grants(t, n) <= 1

C15_Witness ==
  /\ caller = "concurrent_set"
  /\ \E t \in Threads :
       /\ pc[t] = "done"
       /\ rel[t][prev[t]] = 1
       /\ rel[t][curr[t]] = 1
       /\ rel[t][head] = 1

\* C16: there is no global lock.  A lock() is blocked by the owner of that one
\* node only: whenever the node a thread waits for is free the thread can
\* proceed, whatever locks other threads hold elsewhere; so two traversals
\* hold locks at the same time on disjoint nodes (the witness).
C16_NoGlobalLock ==
  \A t \in Threads :
    (WaitsFor(t) # None /\ owner[WaitsFor(t)] = 0) => ENABLED Step(t)

C16_Witness ==
  /\ Len(val) >= 4
  /\ \E t, u \in Threads :
       /\ t # u
       /\ InFind(t) /\ InFind(u)
       /\ HeldBy(t) = {3, 4}
       /\ HeldBy(u) = {1, 2}
       /\ HeldBy(t) \cap HeldBy(u) = {}

\* C17: find releases head and advances once before its first comparison: it
\* never compares the key of head or of head.next, never returns head as pred,
\* and never returns as curr a target stored only in head or in head.next.
C17_FirstTwoNeverCompared ==
  \A t \in Threads :
    /\ pc[t] = "compare"
         => /\ rel[t][head] = 1
            /\ curr[t] \notin {head, next[head]}
    /\ pc[t] = "returned"
         => /\ prev[t] # head
            /\ curr[t] \notin {head, next[head]}

C17_Witness ==
  \E t \in Threads :
    /\ Untouched
    /\ Len(val) >= 3
    /\ Target \in {val[1], val[2]}
    /\ pc[t] = "compare"
    /\ curr[t] = 3

\* C18: a find that reaches a node whose next is empty aborts holding that
\* node's lock, the lock is never released afterwards, and a thread blocked on
\* that node stays blocked.
C18_PanicKeepsLock ==
  /\ [](\A t \in Threads :
          pc[t] = "panicked"
            => /\ next[prev[t]] = None
               /\ HeldBy(t) = {prev[t]})
  /\ [][\A t \in Threads :
          pc[t] = "panicked"
            => /\ pc'[t] = "panicked"
               /\ owner'[prev[t]] = t
               /\ \A u \in Threads :
                    WaitsFor(u) = prev[t] => pc'[u] = pc[u]]_vars

C18_Witness ==
  \E t, u \in Threads :
    /\ t # u
    /\ pc[t] = "panicked"
    /\ WaitsFor(u) = prev[t]
    /\ prev[t] = Len(val)
    /\ prev[t] > 1

\* the steps of find
FindStep(t) ==
  /\ pc[t] \in {"start", "first", "first_lock", "loop", "advance", "advance_lock", "compare"}
  /\ pc'[t] # pc[t]

\* C19: find changes only lock ownership: no step of find changes the val or
\* next field of any node, so with no mutator at work the list reachable from
\* head is the same when find returns as when it was called.
C19_FindChangesOnlyLocks ==
  /\ [][(\E t \in Threads : FindStep(t))
          => (val' = val /\ next' = next /\ freed' = freed)]_vars
  /\ []((\A t \in Threads : ~AfterUnlink(t)) => (Untouched /\ Chain(head) = Nodes))

C19_Witness ==
  /\ Untouched
  /\ Chain(head) = Nodes
  /\ \A t \in Threads : ~AfterUnlink(t)
  /\ \E t \in Threads : pc[t] = "returned" /\ val[curr[t]] = Target

====
